---------------------------- MODULE Spec2Model ----------------------------
(***************************************************************************)
(* Certificate store (zustand), issuance pipelines and PDF upload of the   *)
(* Verificador-de-Certificados application.                                *)
(*                                                                         *)
(*   src/unnamed/part_000   the store: templates, recipients,              *)
(*                          certificates, collections and their actions    *)
(*   src/unnamed/part_001   certificateStorage: uploadCertificatePDF,      *)
(*                          generateAndUploadCertificatePDF                *)
(*                                                                         *)
(* Entities are records (functions from field names to values); an         *)
(* optional field that is not set is absent from the record's domain, as   *)
(* a key is absent from a JavaScript object.                               *)
(***************************************************************************)
EXTENDS Naturals, Sequences, FiniteSets, TLC

VARIABLES
    templates,          \* Template[]                (store state)
    recipients,         \* Recipient[]               (store state)
    certificates,       \* Certificate[]             (store state)
    collections,        \* CertificateCollection[]   (store state)
    currentTemplateId,  \* string | null             (store state)
    nextId,             \* number of identifiers nanoid() has handed out, plus one
    pipes,              \* certificate code -> its asynchronous remote pipeline
    bulks,              \* the generateBulkCertificates calls: their closures
    alerts,             \* the alert() dialogs raised so far, in order
    dbRows,             \* the remote certificates table: certificate_code -> row
    up,                 \* a direct call of uploadCertificatePDF
    last                \* the last store action called: name, arguments, result, state before

storeVars == <<templates, recipients, certificates, collections, currentTemplateId>>
asyncVars == <<pipes, bulks, alerts, dbRows>>
vars == <<templates, recipients, certificates, collections, currentTemplateId,
          nextId, pipes, bulks, alerts, dbRows, up, last>>

---------------------------------------------------------------------------
(* Bounds of the model. *)

\* nanoid() is called at most MaxIds times in a behaviour.
MaxIds == 3
\* generateBulkCertificates is called with at most MaxBulk recipient ids.
MaxBulk == 4

---------------------------------------------------------------------------
(* Values. *)

Null == "null"

\* The identifiers nanoid() returns, in the order it returns them: fresh
\* strings, all different from one another and from the default template ids.
IdPool == <<"id1", "id2", "id3", "id4", "id5", "id6", "id7", "id8", "id9">>

nanoid(n) == IdPool[n]

\* An identifier no entity ever has (an argument that matches nothing).
MissingId == "missing"

\* window.location.origin
baseUrl == "https://x.test"

\* `${baseUrl}/verify/${id}`
VerificationUrl(id) == <<baseUrl, "/verify/", id>>

\* new Date().toISOString(): the clock is not modelled, every call reads Now.
Now == "now"

defaultTemplates ==
    << [id |-> "proteccion-datos-personales",
        name |-> "Certificado de Proteccion de Datos Personales",
        imageUrl |-> "/assets/certificate-templates/proteccion-datos-personales.jpg"],
       [id |-> "power-bi-avanzado",
        name |-> "Certificado de Power BI Avanzado",
        imageUrl |-> "/assets/certificate-templates/power-bi-avanzado.jpg"],
       [id |-> "excel-avanzado",
        name |-> "Certificado de Excel Avanzado",
        imageUrl |-> "/assets/certificate-templates/excel-avanzado.jpg"],
       [id |-> "datos-abiertos",
        name |-> "Certificado de Datos Abiertos",
        imageUrl |-> "/assets/certificate-templates/datos-abiertos.jpg"] >>

defaultRecipients == << >>

defaultCertificates == << >>

---------------------------------------------------------------------------
(* JavaScript object and array helpers. *)

\* The empty object {}.
EmptyObj == [f \in {} |-> Null]

\* { ...payload, id }
WithId(payload, id) ==
    [f \in (DOMAIN payload) \cup {"id"} |-> IF f = "id" THEN id ELSE payload[f]]

\* { ...c, ...updates }
Spread(c, updates) ==
    [f \in (DOMAIN c) \cup (DOMAIN updates) |->
        IF f \in DOMAIN updates THEN updates[f] ELSE c[f]]

\* o.f || dflt for an optional string field
FieldOr(o, f, dflt) == IF f \in DOMAIN o /\ o[f] # "" THEN o[f] ELSE dflt

\* array.map(fn)
Map(s, fn(_)) == [i \in 1..Len(s) |-> fn(s[i])]

\* array.filter(keep)
Filter(s, keep(_)) == SelectSeq(s, keep)

\* The value undefined, where an object is expected.
Undefined == [undefined |-> TRUE]

\* array.find(o => o.id === id)
FindById(s, id) ==
    IF \E i \in 1..Len(s) : s[i].id = id
    THEN s[CHOOSE i \in 1..Len(s) :
               s[i].id = id /\ \A j \in 1..(i - 1) : s[j].id # id]
    ELSE Undefined

\* Mutant: array[0]?.id || null
FirstOtherIdOfAll(s, id) ==
    IF Len(s) > 0 /\ s[1].id # "" THEN s[1].id ELSE Null

\* array.find(o => o.id !== id)?.id || null: null when no element has another
\* id, and when the first that has one has the empty string for id.
FirstOtherId(s, id) ==
    LET first == CHOOSE i \in 1..Len(s) :
                     s[i].id # id /\ \A j \in 1..(i - 1) : s[j].id = id
    IN  IF (\E i \in 1..Len(s) : s[i].id # id) /\ s[first].id # ""
        THEN s[first].id
        ELSE Null

Ids(s) == {s[i].id : i \in 1..Len(s)}

---------------------------------------------------------------------------
(* The store's state and the record of the last call. *)

Snapshot ==
    [templates |-> templates, recipients |-> recipients,
     certificates |-> certificates, collections |-> collections,
     currentTemplateId |-> currentTemplateId]

Called(op, args, ret) ==
    last' = [op |-> op, args |-> args, ret |-> ret, pre |-> Snapshot]

Init ==
    /\ templates = defaultTemplates
    /\ recipients = defaultRecipients
    /\ certificates = defaultCertificates
    /\ collections = << >>
    /\ currentTemplateId = (IF Len(defaultTemplates) > 0 THEN defaultTemplates[1].id ELSE Null)
    /\ nextId = 1
    /\ pipes = << >>
    /\ bulks = << >>
    /\ alerts = << >>
    /\ dbRows = << >>
    /\ up = [pc |-> "idle"]
    /\ last = [op |-> "init", args |-> << >>, ret |-> Null,
               pre |-> [templates |-> defaultTemplates, recipients |-> defaultRecipients,
                        certificates |-> defaultCertificates, collections |-> << >>,
                        currentTemplateId |-> defaultTemplates[1].id]]

---------------------------------------------------------------------------
(* Arguments the actions are called with. *)

\* Omit<Template, 'id'>
TemplatePayloads ==
    { [name |-> "Curso A", imageUrl |-> "/a.jpg"] }

\* Omit<Recipient, 'id'>: email and course are optional
RecipientPayloads ==
    { [name |-> "Ana", email |-> "ana@x.test"],
      [name |-> "Luis", course |-> "Datos"] }

\* Partial<Certificate>
CertificateUpdates ==
    { EmptyObj,
      [status |-> "draft"],
      [id |-> "renamed"] }

\* Identifiers given to the template actions: the first default template's, an
\* added template's, or none's.
TemplateIdArgs ==
    {defaultTemplates[1].id, MissingId}
        \cup {templates[i].id : i \in (Len(defaultTemplates) + 1)..Len(templates)}

RecipientIdArgs == Ids(recipients) \cup {MissingId}

CertificateIdArgs == Ids(certificates) \cup {MissingId}

---------------------------------------------------------------------------
(* Template actions. *)

addTemplateSet(ts, template, id) == Append(ts, WithId(template, id))

addTemplate(template) ==
    /\ nextId <= MaxIds
    /\ templates' = addTemplateSet(templates, template, nanoid(nextId))
    /\ nextId' = nextId + 1
    /\ Called("addTemplate", <<template>>, nanoid(nextId))
    /\ UNCHANGED <<recipients, certificates, collections, currentTemplateId,
                   pipes, bulks, alerts, dbRows, up>>

updateTemplateSet(ts, id, template) ==
    Map(ts, LAMBDA t : IF t.id = id THEN WithId(template, id) ELSE t)

updateTemplate(id, template) ==
    /\ templates' = updateTemplateSet(templates, id, template)
    /\ Called("updateTemplate", <<id, template>>, Null)
    /\ UNCHANGED <<recipients, certificates, collections, currentTemplateId,
                   nextId, pipes, bulks, alerts, dbRows, up>>

deleteTemplate(id) ==
    /\ templates' = Filter(templates, LAMBDA t : t.id # id)
    /\ currentTemplateId' =
           (IF currentTemplateId = id THEN FirstOtherId(templates, id)
                                      ELSE currentTemplateId)
    /\ Called("deleteTemplate", <<id>>, Null)
    /\ UNCHANGED <<recipients, certificates, collections,
                   nextId, pipes, bulks, alerts, dbRows, up>>

setCurrentTemplate(id) ==
    /\ currentTemplateId' = id
    /\ Called("setCurrentTemplate", <<id>>, Null)
    /\ UNCHANGED <<templates, recipients, certificates, collections,
                   nextId, pipes, bulks, alerts, dbRows, up>>

---------------------------------------------------------------------------
(* Recipient actions. *)

addRecipient(recipient) ==
    /\ nextId <= MaxIds
    /\ recipients' = Append(recipients, WithId(recipient, nanoid(nextId)))
    /\ nextId' = nextId + 1
    /\ Called("addRecipient", <<recipient>>, nanoid(nextId))
    /\ UNCHANGED <<templates, certificates, collections, currentTemplateId,
                   pipes, bulks, alerts, dbRows, up>>

\* Mutant: the payload is merged into the old recipient.
updateRecipientSetMerged(rs, id, recipient) ==
    Map(rs, LAMBDA r : IF r.id = id THEN WithId(Spread(r, recipient), id) ELSE r)

updateRecipientSet(rs, id, recipient) ==
    Map(rs, LAMBDA r : IF r.id = id THEN WithId(recipient, id) ELSE r)

updateRecipient(id, recipient) ==
    /\ recipients' = updateRecipientSet(recipients, id, recipient)
    /\ Called("updateRecipient", <<id, recipient>>, Null)
    /\ UNCHANGED <<templates, certificates, collections, currentTemplateId,
                   nextId, pipes, bulks, alerts, dbRows, up>>

deleteRecipientRecipients(rs, id) == Filter(rs, LAMBDA r : r.id # id)

\* Mutant: the recipient's certificates are kept.
deleteRecipientCertificatesKept(cs, id) == cs

deleteRecipientCertificates(cs, id) == Filter(cs, LAMBDA c : c.recipientId # id)

deleteRecipient(id) ==
    /\ recipients' = deleteRecipientRecipients(recipients, id)
    /\ certificates' = deleteRecipientCertificates(certificates, id)
    /\ Called("deleteRecipient", <<id>>, Null)
    /\ UNCHANGED <<templates, collections, currentTemplateId,
                   nextId, pipes, bulks, alerts, dbRows, up>>

---------------------------------------------------------------------------
(* Certificate actions. *)

\* Mutant: the verification URL is built from the recipient's id.
NewCertificateUrlOfRecipient(id, recipientId, templateId) ==
    [id |-> id,
     recipientId |-> recipientId,
     templateId |-> templateId,
     qrCodeUrl |-> VerificationUrl(recipientId),
     issueDate |-> Now,
     verificationUrl |-> VerificationUrl(recipientId),
     status |-> "published"]

\* The Certificate object generateCertificate and generateBulkCertificates build.
NewCertificate(id, recipientId, templateId) ==
    [id |-> id,
     recipientId |-> recipientId,
     templateId |-> templateId,
     qrCodeUrl |-> VerificationUrl(id),
     issueDate |-> Now,
     verificationUrl |-> VerificationUrl(id),
     status |-> "published"]

\* Mutant: the row is keyed by the recipient's id.
DbCertificateOfRecipient(cert, recipient, template) ==
    [certificate_code |-> recipient.id,
     recipient_name |-> recipient.name,
     recipient_email |-> FieldOr(recipient, "email", ""),
     recipient_id |-> Null,
     course_name |-> FieldOr(recipient, "course", template.name),
     template_id |-> cert.templateId,
     issue_date |-> Now,
     qr_code_data |-> cert.verificationUrl,
     status |-> "active"]

\* The DatabaseCertificate row given to supabase.insertCertificate.
\* (customFields are not modelled: recipient_id is always null.)
DbCertificate(cert, recipient, template) ==
    [certificate_code |-> cert.id,
     recipient_name |-> recipient.name,
     recipient_email |-> FieldOr(recipient, "email", ""),
     recipient_id |-> Null,
     course_name |-> FieldOr(recipient, "course", template.name),
     template_id |-> cert.templateId,
     issue_date |-> Now,
     qr_code_data |-> cert.verificationUrl,
     status |-> "active"]

\* The remote pipeline of one certificate, as started: supabase.insertCertificate
\* has been called and its promise is pending.  bulk is 0 for generateCertificate,
\* and the number of the generateBulkCertificates call otherwise; batch is the
\* loop index i of the batch the certificate belongs to.  insert, pdf and update
\* are the promises of insertCertificate, generateAndUploadCertificatePDF and
\* updateCertificatePDFUrl: "none" until the call is made, then "pending", then
\* "resolved" or "rejected"; container tells whether the off-screen container
\* is attached to the document, uploads counts the calls of uploadCertificatePDF.
NewPipe(cert, recipient, template, bulk, batch) ==
    [db |-> DbCertificate(cert, recipient, template),
     bulk |-> bulk, batch |-> batch,
     pc |-> "insert", insert |-> "pending", pdf |-> "none", update |-> "none",
     container |-> FALSE, uploads |-> 0, pdfUrl |-> Null, updateArgs |-> << >>]

\* Mutant: the certificate is not appended until the remote insert has answered.
generateCertificateLocalDeferred(cs, certificate) == cs

generateCertificateLocal(cs, certificate) == Append(cs, certificate)

generateCertificate(recipientId, templateId) ==
    LET id == nanoid(nextId)
        certificate == NewCertificate(id, recipientId, templateId)
        recipient == FindById(recipients, recipientId)
        template == FindById(templates, templateId)
    IN  /\ nextId <= MaxIds
        /\ nextId' = nextId + 1
        /\ certificates' = generateCertificateLocal(certificates, certificate)
        /\ pipes' = (IF recipient # Undefined /\ template # Undefined
                     THEN pipes @@ (id :> NewPipe(certificate, recipient, template, 0, 0))
                     ELSE pipes)
        /\ Called("generateCertificate", <<recipientId, templateId>>, id)
        /\ UNCHANGED <<templates, recipients, collections, currentTemplateId,
                       bulks, alerts, dbRows, up>>

updateCertificateSet(cs, id, updates) ==
    Map(cs, LAMBDA c : IF c.id = id THEN Spread(c, updates) ELSE c)

updateCertificate(id, updates) ==
    /\ certificates' = updateCertificateSet(certificates, id, updates)
    /\ Called("updateCertificate", <<id, updates>>, Null)
    /\ UNCHANGED <<templates, recipients, collections, currentTemplateId,
                   nextId, pipes, bulks, alerts, dbRows, up>>

\* Mutant: the certificate is removed from the collections too.
deleteCertificateFromCollections(id) ==
    /\ certificates' = Filter(certificates, LAMBDA c : c.id # id)
    /\ collections' =
           Map(collections, LAMBDA col :
               [col EXCEPT !.certificates = Filter(@, LAMBDA c : c.id # id)])
    /\ Called("deleteCertificate", <<id>>, Null)
    /\ UNCHANGED <<templates, recipients, currentTemplateId,
                   nextId, pipes, bulks, alerts, dbRows, up>>

deleteCertificate(id) ==
    /\ certificates' = Filter(certificates, LAMBDA c : c.id # id)
    /\ Called("deleteCertificate", <<id>>, Null)
    /\ UNCHANGED <<templates, recipients, collections, currentTemplateId,
                   nextId, pipes, bulks, alerts, dbRows, up>>

---------------------------------------------------------------------------
(* Collection actions. *)

\* The value undefined, where a string is expected (an optional argument that
\* is not given).
UndefinedString == "undefined"

\* templateId || ''
OrEmpty(v) == IF v = UndefinedString THEN "" ELSE v

\* The CertificateCollection object createCollection builds: description is
\* set to the argument even when that is undefined.
NewCollection(id, name, description, templateId) ==
    [id |-> id,
     name |-> name,
     description |-> description,
     templateId |-> OrEmpty(templateId),
     certificates |-> << >>,
     createdAt |-> Now]

createCollection(name, description, templateId) ==
    /\ nextId <= MaxIds
    /\ collections' = Append(collections,
                             NewCollection(nanoid(nextId), name, description, templateId))
    /\ nextId' = nextId + 1
    /\ Called("createCollection", <<name, description, templateId>>, nanoid(nextId))
    /\ UNCHANGED <<templates, recipients, certificates, currentTemplateId,
                   pipes, bulks, alerts, dbRows, up>>

deleteCollection(id) ==
    /\ collections' = Filter(collections, LAMBDA c : c.id # id)
    /\ Called("deleteCollection", <<id>>, Null)
    /\ UNCHANGED <<templates, recipients, certificates, currentTemplateId,
                   nextId, pipes, bulks, alerts, dbRows, up>>

\* certificateIds.includes(id)
Includes(certificateIds, id) == \E j \in 1..Len(certificateIds) : certificateIds[j] = id

\* collection.certificates.some(existing => existing.id === id)
SomeWithId(members, id) == \E j \in 1..Len(members) : members[j].id = id

\* Mutant: the certificates to add are not checked against the members.
addCertificatesToCollectionSetAppend(cols, allCertificates, collectionId, certificateIds) ==
    LET certificatesToAdd == Filter(allCertificates, LAMBDA cert : Includes(certificateIds, cert.id))
    IN  Map(cols, LAMBDA collection :
            IF collection.id = collectionId
            THEN [collection EXCEPT !.certificates = @ \o certificatesToAdd]
            ELSE collection)

addCertificatesToCollectionSet(cols, allCertificates, collectionId, certificateIds) ==
    LET certificatesToAdd == Filter(allCertificates, LAMBDA cert : Includes(certificateIds, cert.id))
    IN  Map(cols, LAMBDA collection :
            IF collection.id = collectionId
            THEN [collection EXCEPT !.certificates =
                     @ \o Filter(certificatesToAdd,
                                 LAMBDA cert : ~SomeWithId(collection.certificates, cert.id))]
            ELSE collection)

addCertificatesToCollection(collectionId, certificateIds) ==
    /\ collections' = addCertificatesToCollectionSet(collections, certificates,
                                                     collectionId, certificateIds)
    /\ Called("addCertificatesToCollection", <<collectionId, certificateIds>>, Null)
    /\ UNCHANGED <<templates, recipients, certificates, currentTemplateId,
                   nextId, pipes, bulks, alerts, dbRows, up>>

\* Mutant: the members whose id is listed are the ones kept.
removeCertificatesFromCollectionSetKeepListed(cols, collectionId, certificateIds) ==
    Map(cols, LAMBDA collection :
        IF collection.id = collectionId
        THEN [collection EXCEPT !.certificates =
                 Filter(@, LAMBDA cert : Includes(certificateIds, cert.id))]
        ELSE collection)

removeCertificatesFromCollectionSet(cols, collectionId, certificateIds) ==
    Map(cols, LAMBDA collection :
        IF collection.id = collectionId
        THEN [collection EXCEPT !.certificates =
                 Filter(@, LAMBDA cert : ~Includes(certificateIds, cert.id))]
        ELSE collection)

removeCertificatesFromCollection(collectionId, certificateIds) ==
    /\ collections' = removeCertificatesFromCollectionSet(collections, collectionId,
                                                          certificateIds)
    /\ Called("removeCertificatesFromCollection", <<collectionId, certificateIds>>, Null)
    /\ UNCHANGED <<templates, recipients, certificates, currentTemplateId,
                   nextId, pipes, bulks, alerts, dbRows, up>>

---------------------------------------------------------------------------
(* JSON.  A JSON text is modelled by the document it denotes, a tree of     *)
(* tagged records; JsonInvalid is any text JSON.parse rejects.  An entity's *)
(* property values are strings, but for the certificates of a collection.  *)

JsonInvalid == [json |-> "invalid"]

JsonNull == [json |-> "null"]

JsonFalse == [json |-> "false"]

JsonNumber(n) == [json |-> "number", number |-> n]

JsonString(str) == [json |-> "string", string |-> str]

JsonArray(items) == [json |-> "array", items |-> items]

JsonObject(members) == [json |-> "object", members |-> members]

\* What reading a property that an object does not have gives.
JsonUndefined == [json |-> "undefined"]

\* o[f] === undefined, for a property o has: description is the one property
\* the store sets to an argument that may be undefined.
IsUndefinedAt(o, f) == f = "description" /\ o[f] = UndefinedString

\* JSON.stringify of an object with string properties: a property whose value
\* is undefined is left out.
StringifyFlat(o) ==
    JsonObject([f \in {g \in DOMAIN o : ~IsUndefinedAt(o, g)} |-> JsonString(o[f])])

\* JSON.stringify of an entity of the store.
StringifyEntity(o) ==
    JsonObject([f \in {g \in DOMAIN o : ~IsUndefinedAt(o, g)} |->
                   IF f = "certificates"
                   THEN JsonArray([j \in 1..Len(o[f]) |-> StringifyFlat(o[f][j])])
                   ELSE JsonString(o[f])])

\* JSON.stringify of a container of the store.
StringifyContainer(s) == JsonArray([i \in 1..Len(s) |-> StringifyEntity(s[i])])

\* The value JSON.parse returns for a document.
RECURSIVE ParseValue(_)
ParseValue(v) ==
    CASE v.json = "string" -> v.string
      [] v.json = "number" -> v.number
      [] v.json = "array" -> [j \in 1..Len(v.items) |-> ParseValue(v.items[j])]
      [] v.json = "object" -> [f \in DOMAIN v.members |-> ParseValue(v.members[f])]
      [] OTHER -> Null

\* JSON.parse(jsonData) throws a SyntaxError.
ParseThrows(jsonData) == jsonData.json = "invalid"

\* Mutant: the properties of data are read with data?.key.
ReadThrowsNever(data) == FALSE

\* data.templates throws a TypeError: data is null.
ReadThrows(data) == data.json = "null"

\* data[key]
Get(data, key) ==
    IF data.json = "object" /\ key \in DOMAIN data.members
    THEN data.members[key]
    ELSE JsonUndefined

\* The value is truthy.
Truthy(v) ==
    /\ v.json \notin {"undefined", "null", "false"}
    /\ v.json = "number" => v.number # 0
    /\ v.json = "string" => v.string # ""

\* data[key] || []
ContainerOr(data, key) ==
    IF Truthy(Get(data, key)) THEN ParseValue(Get(data, key)) ELSE << >>

\* data.templates?.[0]?.id || null
FirstTemplateId(data) ==
    LET ts == Get(data, "templates")
    IN  IF /\ ts.json = "array"
           /\ Len(ts.items) > 0
           /\ ts.items[1].json = "object"
           /\ "id" \in DOMAIN ts.items[1].members
           /\ Truthy(ts.items[1].members.id)
        THEN ParseValue(ts.items[1].members.id)
        ELSE Null

---------------------------------------------------------------------------
(* Utility actions. *)

loadDefaultData ==
    /\ templates' = defaultTemplates
    /\ recipients' = defaultRecipients
    /\ certificates' = defaultCertificates
    /\ collections' = << >>
    /\ currentTemplateId' =
           (IF Len(defaultTemplates) > 0 THEN defaultTemplates[1].id ELSE Null)
    /\ Called("loadDefaultData", << >>, Null)
    /\ UNCHANGED <<nextId, pipes, bulks, alerts, dbRows, up>>

\* The store clearAllData sets.
ClearedStore ==
    [templates |-> << >>, recipients |-> << >>, certificates |-> << >>,
     collections |-> << >>, currentTemplateId |-> Null]

clearAllData ==
    /\ templates' = ClearedStore.templates
    /\ recipients' = ClearedStore.recipients
    /\ certificates' = ClearedStore.certificates
    /\ collections' = ClearedStore.collections
    /\ currentTemplateId' = ClearedStore.currentTemplateId
    /\ Called("clearAllData", << >>, Null)
    /\ UNCHANGED <<nextId, pipes, bulks, alerts, dbRows, up>>

\* Mutant: the collections are not exported.
exportDataTextNoCollections(store) ==
    JsonObject([templates |-> StringifyContainer(store.templates),
                recipients |-> StringifyContainer(store.recipients),
                certificates |-> StringifyContainer(store.certificates)])

\* The text exportData returns for a store.
exportDataText(store) ==
    JsonObject([templates |-> StringifyContainer(store.templates),
                recipients |-> StringifyContainer(store.recipients),
                certificates |-> StringifyContainer(store.certificates),
                collections |-> StringifyContainer(store.collections)])

exportData ==
    /\ Called("exportData", << >>, exportDataText(Snapshot))
    /\ UNCHANGED <<storeVars, nextId, pipes, bulks, alerts, dbRows, up>>

\* Mutant: a container is replaced only when the payload has a value for it.
importDataSetMerged(store, jsonData) ==
    IF ParseThrows(jsonData) \/ ReadThrows(jsonData)
    THEN store
    ELSE [templates |-> IF Truthy(Get(jsonData, "templates"))
                        THEN ContainerOr(jsonData, "templates") ELSE store.templates,
          recipients |-> IF Truthy(Get(jsonData, "recipients"))
                         THEN ContainerOr(jsonData, "recipients") ELSE store.recipients,
          certificates |-> IF Truthy(Get(jsonData, "certificates"))
                           THEN ContainerOr(jsonData, "certificates") ELSE store.certificates,
          collections |-> IF Truthy(Get(jsonData, "collections"))
                          THEN ContainerOr(jsonData, "collections") ELSE store.collections,
          currentTemplateId |-> FirstTemplateId(jsonData)]

\* The store after importData(jsonData): when JSON.parse or the reading of
\* data's properties throws, set is not called and the catch block logs.
importDataSet(store, jsonData) ==
    IF ParseThrows(jsonData) \/ ReadThrows(jsonData)
    THEN store
    ELSE [templates |-> ContainerOr(jsonData, "templates"),
          recipients |-> ContainerOr(jsonData, "recipients"),
          certificates |-> ContainerOr(jsonData, "certificates"),
          collections |-> ContainerOr(jsonData, "collections"),
          currentTemplateId |-> FirstTemplateId(jsonData)]

importData(jsonData) ==
    LET store == importDataSet(Snapshot, jsonData)
    IN  /\ templates' = store.templates
        /\ recipients' = store.recipients
        /\ certificates' = store.certificates
        /\ collections' = store.collections
        /\ currentTemplateId' = store.currentTemplateId
        /\ Called("importData", <<jsonData>>, Null)
        /\ UNCHANGED <<nextId, pipes, bulks, alerts, dbRows, up>>

---------------------------------------------------------------------------
(* Object storage: uploadCertificatePDF.                                   *)
(* A call is a record: the certificate code, the attempt of the for loop,  *)
(* where it is suspended (pc), the status of the last response, the        *)
(* requests sent and the delays slept so far, and the URL returned.        *)

\* import.meta.env.VITE_SUPABASE_URL
supabaseUrl == "https://project.supabase.co"

BUCKET_NAME == "certificates"

MAX_RETRIES == 3

RETRY_DELAY == 1000

\* `${certificateCode}.pdf`
FileName(code) == <<code, ".pdf">>

\* `${supabaseUrl}/storage/v1/object/${BUCKET_NAME}/${filePath}`
ObjectUrl(code) ==
    <<supabaseUrl, "/storage/v1/object/", BUCKET_NAME, "/", FileName(code)>>

\* Mutant: the URL returned is the one the file was sent to.
PublicUrlOfRequest(code) == ObjectUrl(code)

\* `${supabaseUrl}/storage/v1/object/public/${BUCKET_NAME}/${filePath}`
PublicUrl(code) ==
    <<supabaseUrl, "/storage/v1/object/public/", BUCKET_NAME, "/", FileName(code)>>

\* getCertificatePDFUrl
getCertificatePDFUrl(certificateCode) ==
    <<supabaseUrl, "/storage/v1/object/public/", BUCKET_NAME, "/",
      <<certificateCode, ".pdf">> >>

Request(method, code) == [method |-> method, url |-> ObjectUrl(code)]

\* The statuses a storage response carries; NoStatus when fetch threw.
Statuses == {200, 400, 409, 500}

NoStatus == 0

\* response.ok
ResponseOk(status) == status >= 200 /\ status <= 299

\* The call enters the loop: attempt 1 sends the create request.
UploadStart(code) ==
    [code |-> code, attempt |-> 1, pc |-> "post", status |-> NoStatus,
     requests |-> <<Request("POST", code)>>, slept |-> << >>, result |-> Null]

\* return publicUrl
UploadReturn(u, status) ==
    [u EXCEPT !.pc = "returned", !.status = status, !.result = PublicUrl(u.code)]

\* Mutant: the delay does not grow with the attempt.
UploadCatchFixedDelay(u, status) ==
    IF u.attempt = MAX_RETRIES
    THEN [u EXCEPT !.pc = "thrown", !.status = status]
    ELSE [u EXCEPT !.pc = "sleep", !.status = status,
                   !.slept = Append(@, RETRY_DELAY)]

\* The catch block: the last attempt throws the terminal error, any other
\* sleeps RETRY_DELAY * attempt.
UploadCatch(u, status) ==
    IF u.attempt = MAX_RETRIES
    THEN [u EXCEPT !.pc = "thrown", !.status = status]
    ELSE [u EXCEPT !.pc = "sleep", !.status = status,
                   !.slept = Append(@, RETRY_DELAY * u.attempt)]

\* Mutant: a 409 on create is a failure like any other.
OnPostResponseConflictFails(u, status) ==
    IF ResponseOk(status) THEN UploadReturn(u, status) ELSE UploadCatch(u, status)

\* The create request answered.
OnPostResponse(u, status) ==
    IF ResponseOk(status) THEN UploadReturn(u, status)
    ELSE IF status = 409
         THEN [u EXCEPT !.pc = "put", !.status = status,
                        !.requests = Append(@, Request("PUT", u.code))]
         ELSE UploadCatch(u, status)

\* The update request answered.
OnPutResponse(u, status) ==
    IF ResponseOk(status) THEN UploadReturn(u, status) ELSE UploadCatch(u, status)

\* The sleep ended: the next attempt sends the create request.
OnSleepDone(u) ==
    [u EXCEPT !.pc = "post", !.attempt = @ + 1,
              !.requests = Append(@, Request("POST", u.code))]

UploadCodes == {nanoid(i) : i \in 1..MaxIds}

uploadCertificatePDF(code) ==
    /\ up.pc = "idle"
    /\ up' = UploadStart(code)
    /\ UNCHANGED <<storeVars, nextId, asyncVars, last>>

UploadPostResponse(status) ==
    /\ up.pc = "post"
    /\ up' = OnPostResponse(up, status)
    /\ UNCHANGED <<storeVars, nextId, asyncVars, last>>

\* fetch, or reading the response body, threw.
UploadPostException ==
    /\ up.pc = "post"
    /\ up' = UploadCatch(up, NoStatus)
    /\ UNCHANGED <<storeVars, nextId, asyncVars, last>>

UploadPutResponse(status) ==
    /\ up.pc = "put"
    /\ up' = OnPutResponse(up, status)
    /\ UNCHANGED <<storeVars, nextId, asyncVars, last>>

UploadPutException ==
    /\ up.pc = "put"
    /\ up' = UploadCatch(up, NoStatus)
    /\ UNCHANGED <<storeVars, nextId, asyncVars, last>>

UploadSleepDone ==
    /\ up.pc = "sleep"
    /\ up' = OnSleepDone(up)
    /\ UNCHANGED <<storeVars, nextId, asyncVars, last>>

NextUpload ==
    \/ \E code \in UploadCodes : uploadCertificatePDF(code)
    \/ \E status \in Statuses : UploadPostResponse(status)
    \/ UploadPostException
    \/ \E status \in Statuses : UploadPutResponse(status)
    \/ UploadPutException
    \/ UploadSleepDone

SpecUpload == Init /\ [][NextUpload]_vars

---------------------------------------------------------------------------
(* The remote certificates table (supabase.insertCertificate and           *)
(* supabase.updateCertificatePDFUrl), as the specification describes it:   *)
(* rows keyed by certificate_code, with a PDF URL column set later.        *)

insertCertificateRow(rows, db) ==
    (db.certificate_code :> Spread(db, [certificate_pdf_url |-> Null])) @@ rows

updateCertificatePDFUrlRow(rows, code, pdfUrl) ==
    IF code \in DOMAIN rows
    THEN [rows EXCEPT ![code] = Spread(@, [certificate_pdf_url |-> pdfUrl])]
    ELSE rows

---------------------------------------------------------------------------
(* Bulk issuance: generateBulkCertificates and its closure.                *)

batchSize == 3

Min(a, b) == IF a < b THEN a ELSE b

\* Mutant: the loop takes every remaining certificate as one batch.
BatchSliceRest(i, n) == (i + 1)..n

\* newCertificates.slice(i, i + batchSize), as positions of newCertificates
BatchSlice(i, n) == (i + 1)..Min(i + batchSize, n)

\* processCertificate returned without a remote call: recipient or template missing.
SkippedPipe(bulk, batch) ==
    [db |-> Undefined, bulk |-> bulk, batch |-> batch,
     pc |-> "skipped", insert |-> "none", pdf |-> "none", update |-> "none",
     container |-> FALSE, uploads |-> 0, pdfUrl |-> Null, updateArgs |-> << >>]

\* Mutant: processCertificate looks the recipient up in the store as it is
\* when the batch starts.
BatchPipesOfStore(k, b, i) ==
    LET slice == BatchSlice(i, Len(b.certs))
        pos(c) == CHOOSE j \in slice : b.certs[j].id = c
    IN  [c \in {b.certs[j].id : j \in slice} |->
            IF FindById(recipients, b.certs[pos(c)].recipientId) # Undefined
                   /\ b.template # Undefined
            THEN NewPipe(b.certs[pos(c)], FindById(recipients, b.certs[pos(c)].recipientId),
                         b.template, k, i)
            ELSE SkippedPipe(k, i)]

\* batch.map(cert => processCertificate(cert)), up to each one's first await
BatchPipes(k, b, i) ==
    LET slice == BatchSlice(i, Len(b.certs))
        pos(c) == CHOOSE j \in slice : b.certs[j].id = c
    IN  [c \in {b.certs[j].id : j \in slice} |->
            IF b.found[pos(c)] # Undefined /\ b.template # Undefined
            THEN NewPipe(b.certs[pos(c)], b.found[pos(c)], b.template, k, i)
            ELSE SkippedPipe(k, i)]

generateBulkCertificates(recipientIds, templateId) ==
    LET n == Len(recipientIds)
        newCertificates ==
            [j \in 1..n |-> NewCertificate(nanoid(nextId + j - 1), recipientIds[j], templateId)]
        k == Len(bulks) + 1
        b == [certs |-> newCertificates,
              found |-> [j \in 1..n |-> FindById(recipients, recipientIds[j])],
              template |-> FindById(templates, templateId),
              i |-> 0, savedCount |-> 0, errorCount |-> 0,
              pc |-> IF n = 0 THEN "done" ELSE "running"]
    IN  /\ n <= MaxBulk
        /\ nextId' = nextId + n
        /\ certificates' = certificates \o newCertificates
        /\ bulks' = Append(bulks, b)
        /\ pipes' = pipes @@ BatchPipes(k, b, 0)
        /\ Called("generateBulkCertificates", <<recipientIds, templateId>>,
                  [j \in 1..n |-> newCertificates[j].id])
        /\ UNCHANGED <<templates, recipients, collections, currentTemplateId,
                       alerts, dbRows, up>>

\* A pipeline that has ended: its promise is settled.
Terminal == {"done", "insertFailed", "pdfFailed", "updateFailed", "skipped"}

InFlight(c) == pipes[c].pc \notin Terminal

\* Mutant: processBatch(batch) is not awaited.
BatchSettledNoAwait(k) == TRUE

\* Mutant: Promise.all rejects when a pipeline of the batch has failed, and
\* the loop is left.
BatchSettledUnlessFailed(k) ==
    \A c \in DOMAIN pipes :
        (pipes[c].bulk = k /\ pipes[c].batch = bulks[k].i) =>
            pipes[c].pc \in {"done", "skipped"}

\* await processBatch(batch): Promise.all of the batch's pipelines has resolved.
BatchSettled(k) ==
    \A c \in DOMAIN pipes :
        (pipes[c].bulk = k /\ pipes[c].batch = bulks[k].i) => ~InFlight(c)

\* The for loop of the async closure goes on after await processBatch(batch):
\* the next batch is started, or the loop ends and the summary is reported.
BulkContinue(k) ==
    LET b == bulks[k]
        i == b.i + batchSize
    IN  /\ b.pc = "running"
        /\ BatchSettled(k)
        /\ IF i < Len(b.certs)
           THEN /\ bulks' = [bulks EXCEPT ![k].i = i]
                /\ pipes' = pipes @@ BatchPipes(k, b, i)
                /\ UNCHANGED alerts
           ELSE /\ bulks' = [bulks EXCEPT ![k].i = i, ![k].pc = "done"]
                /\ alerts' = (IF b.errorCount > 0
                              THEN Append(alerts, [kind |-> "bulk", saved |-> b.savedCount,
                                                   failed |-> b.errorCount])
                              ELSE alerts)
                /\ UNCHANGED pipes
        /\ UNCHANGED <<storeVars, nextId, dbRows, up, last>>

---------------------------------------------------------------------------
(* The remote pipeline of one certificate, c its certificate code: the     *)
(* promise chain of generateCertificate, or processCertificate of a bulk   *)
(* call.  Each action is the code that runs when one awaited promise       *)
(* settles, up to the next await.  To the pipeline uploadCertificatePDF is *)
(* one awaited call, which returns the public URL or throws; its own steps *)
(* are the Upload actions above.                                           *)

\* savedCount++ / errorCount++ of the bulk call the pipeline belongs to
Counted(c, field) ==
    IF pipes[c].bulk = 0 THEN bulks
    ELSE [bulks EXCEPT ![pipes[c].bulk][field] = @ + 1]

\* insertCertificate resolved: generateAndUploadCertificatePDF is called and
\* waits for the template image.
InsertResolved(c) ==
    /\ pipes[c].pc = "insert"
    /\ pipes' = [pipes EXCEPT ![c].pc = "img", ![c].insert = "resolved",
                              ![c].pdf = "pending"]
    /\ bulks' = Counted(c, "savedCount")
    /\ dbRows' = insertCertificateRow(dbRows, pipes[c].db)
    /\ UNCHANGED <<storeVars, nextId, alerts, up, last>>

\* Mutant: a rejected insert rolls the local certificate back.
InsertRejectedRollback(c) ==
    /\ pipes[c].pc = "insert"
    /\ pipes' = [pipes EXCEPT ![c].pc = "insertFailed", ![c].insert = "rejected"]
    /\ bulks' = Counted(c, "errorCount")
    /\ alerts' = (IF pipes[c].bulk = 0 THEN Append(alerts, [kind |-> "single", saved |-> 0,
                                                           failed |-> 0])
                                      ELSE alerts)
    /\ certificates' = Filter(certificates, LAMBDA x : x.id # c)
    /\ UNCHANGED <<templates, recipients, collections, currentTemplateId,
                   nextId, dbRows, up, last>>

\* Mutant: the PDF is generated whatever the insert answered.
InsertRejectedThenPdf(c) ==
    /\ pipes[c].pc = "insert"
    /\ pipes' = [pipes EXCEPT ![c].pc = "img", ![c].insert = "rejected",
                              ![c].pdf = "pending"]
    /\ bulks' = Counted(c, "errorCount")
    /\ alerts' = (IF pipes[c].bulk = 0 THEN Append(alerts, [kind |-> "single", saved |-> 0,
                                                           failed |-> 0])
                                      ELSE alerts)
    /\ UNCHANGED <<storeVars, nextId, dbRows, up, last>>

\* Mutant: every rejected insert alerts, in a bulk call too.
InsertRejectedAlwaysAlerts(c) ==
    /\ pipes[c].pc = "insert"
    /\ pipes' = [pipes EXCEPT ![c].pc = "insertFailed", ![c].insert = "rejected"]
    /\ bulks' = Counted(c, "errorCount")
    /\ alerts' = Append(alerts, [kind |-> "single", saved |-> 0, failed |-> 0])
    /\ UNCHANGED <<storeVars, nextId, dbRows, up, last>>

\* insertCertificate rejected: a single issuance alerts, a bulk one counts.
InsertRejected(c) ==
    /\ pipes[c].pc = "insert"
    /\ pipes' = [pipes EXCEPT ![c].pc = "insertFailed", ![c].insert = "rejected"]
    /\ bulks' = Counted(c, "errorCount")
    /\ alerts' = (IF pipes[c].bulk = 0 THEN Append(alerts, [kind |-> "single", saved |-> 0,
                                                           failed |-> 0])
                                      ELSE alerts)
    /\ UNCHANGED <<storeVars, nextId, dbRows, up, last>>

\* The image loaded: the fields are laid out, the off-screen container is
\* attached to the document, and the settle delay starts.
ImageLoaded(c) ==
    /\ pipes[c].pc = "img"
    /\ pipes' = [pipes EXCEPT ![c].pc = "settle", ![c].container = TRUE]
    /\ UNCHANGED <<storeVars, nextId, bulks, alerts, dbRows, up, last>>

\* Mutant: the row of a certificate whose PDF cannot be made is deleted.
ImageFailedDropsRow(c) ==
    /\ pipes[c].pc = "img"
    /\ pipes' = [pipes EXCEPT ![c].pc = "pdfFailed", ![c].pdf = "rejected"]
    /\ dbRows' = [code \in (DOMAIN dbRows) \ {c} |-> dbRows[code]]
    /\ UNCHANGED <<storeVars, nextId, bulks, alerts, up, last>>

\* The image failed to load, or the 10 s timeout fired first: rethrown, caught
\* and logged by the pipeline.
ImageFailed(c) ==
    /\ pipes[c].pc = "img"
    /\ pipes' = [pipes EXCEPT ![c].pc = "pdfFailed", ![c].pdf = "rejected"]
    /\ UNCHANGED <<storeVars, nextId, bulks, alerts, dbRows, up, last>>

\* The 500 ms settle delay ended: html2canvas is called.
SettleDone(c) ==
    /\ pipes[c].pc = "settle"
    /\ pipes' = [pipes EXCEPT ![c].pc = "raster"]
    /\ UNCHANGED <<storeVars, nextId, bulks, alerts, dbRows, up, last>>

\* html2canvas resolved and the PDF was encoded: the container is removed
\* and uploadCertificatePDF is called.
RasterDone(c) ==
    /\ pipes[c].pc = "raster"
    /\ pipes' = [pipes EXCEPT ![c].pc = "upload", ![c].container = FALSE,
                              ![c].uploads = @ + 1]
    /\ UNCHANGED <<storeVars, nextId, bulks, alerts, dbRows, up, last>>

\* html2canvas rejected, or toDataURL / jsPDF threw: rethrown before
\* removeChild is reached.
RasterFailed(c) ==
    /\ pipes[c].pc = "raster"
    /\ pipes' = [pipes EXCEPT ![c].pc = "pdfFailed", ![c].pdf = "rejected"]
    /\ UNCHANGED <<storeVars, nextId, bulks, alerts, dbRows, up, last>>

\* uploadCertificatePDF returned: updateCertificatePDFUrl(id, pdfUrl) is called.
UploadResolved(c) ==
    /\ pipes[c].pc = "upload"
    /\ pipes' = [pipes EXCEPT ![c].pc = "update", ![c].pdf = "resolved",
                              ![c].update = "pending",
                              ![c].pdfUrl = PublicUrl(c),
                              ![c].updateArgs = <<c, PublicUrl(c)>>]
    /\ UNCHANGED <<storeVars, nextId, bulks, alerts, dbRows, up, last>>

\* Mutant: a failed upload alerts.
UploadRejectedAlerts(c) ==
    /\ pipes[c].pc = "upload"
    /\ pipes' = [pipes EXCEPT ![c].pc = "pdfFailed", ![c].pdf = "rejected"]
    /\ alerts' = Append(alerts, [kind |-> "single", saved |-> 0, failed |-> 0])
    /\ UNCHANGED <<storeVars, nextId, bulks, dbRows, up, last>>

\* uploadCertificatePDF threw its terminal error.
UploadRejected(c) ==
    /\ pipes[c].pc = "upload"
    /\ pipes' = [pipes EXCEPT ![c].pc = "pdfFailed", ![c].pdf = "rejected"]
    /\ UNCHANGED <<storeVars, nextId, bulks, alerts, dbRows, up, last>>

UpdateResolved(c) ==
    /\ pipes[c].pc = "update"
    /\ pipes' = [pipes EXCEPT ![c].pc = "done", ![c].update = "resolved"]
    /\ dbRows' = updateCertificatePDFUrlRow(dbRows, pipes[c].updateArgs[1],
                                            pipes[c].updateArgs[2])
    /\ UNCHANGED <<storeVars, nextId, bulks, alerts, up, last>>

\* Mutant: a failed URL update counts the certificate as failed.
UpdateRejectedCounted(c) ==
    /\ pipes[c].pc = "update"
    /\ pipes' = [pipes EXCEPT ![c].pc = "updateFailed", ![c].update = "rejected"]
    /\ bulks' = Counted(c, "errorCount")
    /\ UNCHANGED <<storeVars, nextId, alerts, dbRows, up, last>>

UpdateRejected(c) ==
    /\ pipes[c].pc = "update"
    /\ pipes' = [pipes EXCEPT ![c].pc = "updateFailed", ![c].update = "rejected"]
    /\ UNCHANGED <<storeVars, nextId, bulks, alerts, dbRows, up, last>>

---------------------------------------------------------------------------
(* Issuance: a recipient is registered, then certificates are issued one   *)
(* by one or by one bulk call, and the remote calls settle in any order.   *)
(* The pipelines of different calls share no state but alerts, so the      *)
(* behaviours explored hold either single issuances or one bulk call.      *)

\* The recipient id lists a bulk call is given: the first recipient's id at
\* every position, but for at most one position that matches no recipient.
BulkInputs ==
    LET r == IF Len(recipients) > 0 THEN recipients[1].id ELSE MissingId
    IN  UNION { { [j \in 1..n |-> IF j = m THEN MissingId ELSE r] : m \in 0..n }
                : n \in 0..MaxBulk }

NextIssue ==
    \/ \E p \in RecipientPayloads : recipients = << >> /\ addRecipient(p)
    \/ \E r \in RecipientIdArgs, t \in TemplateIdArgs :
           bulks = << >> /\ generateCertificate(r, t)
    \/ \E rs \in BulkInputs, t \in TemplateIdArgs :
           bulks = << >> /\ certificates = << >> /\ generateBulkCertificates(rs, t)
    \/ \E k \in 1..Len(bulks) : BulkContinue(k)
    \/ \E c \in DOMAIN pipes : InsertResolved(c)
    \/ \E c \in DOMAIN pipes : InsertRejected(c)
    \/ \E c \in DOMAIN pipes : ImageLoaded(c)
    \/ \E c \in DOMAIN pipes : ImageFailed(c)
    \/ \E c \in DOMAIN pipes : SettleDone(c)
    \/ \E c \in DOMAIN pipes : RasterDone(c)
    \/ \E c \in DOMAIN pipes : RasterFailed(c)
    \/ \E c \in DOMAIN pipes : UploadResolved(c)
    \/ \E c \in DOMAIN pipes : UploadRejected(c)
    \/ \E c \in DOMAIN pipes : UpdateResolved(c)
    \/ \E c \in DOMAIN pipes : UpdateRejected(c)

SpecIssue == Init /\ [][NextIssue]_vars

---------------------------------------------------------------------------
(* The store on its own: recipients and certificates.                      *)

Next ==
    \/ \E p \in RecipientPayloads : addRecipient(p)
    \/ \E id \in RecipientIdArgs : deleteRecipient(id)
    \/ \E r \in RecipientIdArgs, t \in TemplateIdArgs : generateCertificate(r, t)
    \/ \E id \in CertificateIdArgs, u \in CertificateUpdates : updateCertificate(id, u)

Spec == Init /\ [][Next]_vars

(* The store on its own: templates and recipients are added and edited.    *)

NextEdit ==
    \/ \E p \in TemplatePayloads : addTemplate(p)
    \/ \E id \in TemplateIdArgs, p \in TemplatePayloads : updateTemplate(id, p)
    \/ \E p \in RecipientPayloads : addRecipient(p)
    \/ \E id \in RecipientIdArgs, p \in RecipientPayloads : updateRecipient(id, p)

SpecEdit == Init /\ [][NextEdit]_vars

(* The store on its own: certificates are issued and deleted, collections   *)
(* are created and their members added and removed.                        *)

CollectionIdArgs == Ids(collections) \cup {MissingId}

\* The certificateIds lists: up to two identifiers of certificates, or unknown.
CertificateIdLists ==
    {<< >>} \cup {<<a>> : a \in CertificateIdArgs}
            \cup {<<a, b>> : a \in Ids(certificates), b \in CertificateIdArgs}

NextCollections ==
    \/ generateCertificate(MissingId, defaultTemplates[1].id)
    \/ \E id \in Ids(certificates) : deleteCertificate(id)
    \/ \E d \in {UndefinedString, "Primer grupo"} :
           Len(collections) < 2 /\ createCollection("Grupo", d, UndefinedString)
    \/ \E k \in CollectionIdArgs, ids \in CertificateIdLists :
           addCertificatesToCollection(k, ids)
    \/ \E k \in CollectionIdArgs, ids \in CertificateIdLists :
           removeCertificatesFromCollection(k, ids)

SpecCollections == Init /\ [][NextCollections]_vars

(* The store on its own: data is created, exported, cleared and imported. *)

\* Entities of an imported document.
ImportedTemplate == JsonObject([id |-> JsonString("t-imported"), name |-> JsonString("Importada")])

ImportedRecipient == JsonObject([id |-> JsonString("r-imported"), name |-> JsonString("Eva")])

ImportedCertificate ==
    JsonObject([id |-> JsonString("c-imported"), recipientId |-> JsonString("r-imported"),
                templateId |-> JsonString("t-imported"), status |-> JsonString("published")])

\* The texts importData is given, besides a text exportData has just returned:
\* texts that are not JSON, JSON values that are not objects, and objects with
\* all, some or none of the four keys, a key's value being an array or one of
\* null, false, 0 and "".
ImportInputs ==
    { JsonInvalid,
      JsonNull,
      JsonNumber(42),
      JsonArray(<< >>),
      JsonObject(EmptyObj),
      JsonObject([templates |-> JsonArray(<<ImportedTemplate>>),
                  recipients |-> JsonArray(<<ImportedRecipient>>)]),
      JsonObject([templates |-> JsonNull,
                  certificates |-> JsonArray(<<ImportedCertificate>>),
                  collections |-> JsonArray(<< >>)]),
      JsonObject([templates |-> JsonNumber(0),
                  recipients |-> JsonString(""),
                  certificates |-> JsonFalse]),
      JsonObject([templates |-> JsonArray(<< >>),
                  recipients |-> JsonArray(<<ImportedRecipient>>),
                  certificates |-> JsonArray(<<ImportedCertificate>>),
                  collections |-> JsonArray(<< >>)]) }

NextData ==
    \/ generateCertificate(MissingId, defaultTemplates[1].id)
    \/ \E d \in {UndefinedString, "Primer grupo"} :
           collections = << >> /\ createCollection("Grupo", d, UndefinedString)
    \/ \E k \in Ids(collections), a \in Ids(certificates) :
           addCertificatesToCollection(k, <<a>>)
    \/ \E id \in Ids(templates) : setCurrentTemplate(id)
    \/ exportData
    \/ \E jsonData \in ImportInputs \cup (IF last.op = "exportData" THEN {last.ret} ELSE {}) :
           importData(jsonData)
    \/ clearAllData
    \/ loadDefaultData

SpecData == Init /\ [][NextData]_vars

(* The store on its own: certificates are issued, updated and deleted, and *)
(* put in and taken out of a collection.                                   *)

NextMembers ==
    \/ generateCertificate(MissingId, defaultTemplates[1].id)
    \/ \E id \in Ids(certificates), updates \in CertificateUpdates :
           updateCertificate(id, updates)
    \/ \E id \in Ids(certificates) : deleteCertificate(id)
    \/ collections = << >> /\ createCollection("Grupo", "Primer grupo", UndefinedString)
    \/ \E k \in Ids(collections), ids \in CertificateIdLists :
           addCertificatesToCollection(k, ids)
    \/ \E k \in Ids(collections), ids \in CertificateIdLists :
           removeCertificatesFromCollection(k, ids)

SpecMembers == Init /\ [][NextMembers]_vars

(* The store on its own: templates are added, updated, deleted, chosen,    *)
(* and replaced by the utility actions.                                    *)

\* A template of an imported document whose id is the empty string: importData
\* takes the templates as they are.
UnidentifiedTemplate == JsonObject([id |-> JsonString(""), name |-> JsonString("Sin id")])

\* The texts importData is given: one that is not JSON, and objects without
\* templates, with one template, and with two templates of which the first or
\* the second has the empty id.
TemplateImportInputs ==
    { JsonInvalid,
      JsonObject(EmptyObj),
      JsonObject([templates |-> JsonArray(<<ImportedTemplate>>)]),
      JsonObject([templates |-> JsonArray(<<ImportedTemplate, UnidentifiedTemplate>>)]),
      JsonObject([templates |-> JsonArray(<<UnidentifiedTemplate, ImportedTemplate>>)]) }

NextTemplates ==
    \/ \E p \in TemplatePayloads : addTemplate(p)
    \/ \E id \in Ids(templates), p \in TemplatePayloads : updateTemplate(id, p)
    \/ \E id \in Ids(templates) \cup {MissingId} : deleteTemplate(id)
    \/ \E id \in Ids(templates) : setCurrentTemplate(id)
    \/ \E jsonData \in TemplateImportInputs : importData(jsonData)
    \/ clearAllData
    \/ loadDefaultData

SpecTemplates == Init /\ [][NextTemplates]_vars

(* The store on its own: entities are created and deleted.                *)

NextDelete ==
    \/ \E p \in RecipientPayloads : recipients = << >> /\ addRecipient(p)
    \/ \E r \in RecipientIdArgs : generateCertificate(r, defaultTemplates[1].id)
    \/ collections = << >> /\ createCollection("Grupo", "Primer grupo", defaultTemplates[1].id)
    \/ \E k \in Ids(collections), a \in Ids(certificates) :
           addCertificatesToCollection(k, <<a>>)
    \/ \E id \in TemplateIdArgs : deleteTemplate(id)
    \/ \E id \in RecipientIdArgs : deleteRecipient(id)
    \/ \E id \in CertificateIdArgs : deleteCertificate(id)
    \/ \E id \in CollectionIdArgs : deleteCollection(id)

SpecDelete == Init /\ [][NextDelete]_vars

(* Issuance and upload with every remote call answered: each promise that *)
(* is awaited settles, and each timer fires.  A behaviour holds issuances  *)
(* or a direct upload call.                                                *)

NextLive ==
    \/ up.pc = "idle" /\ NextIssue
    \/ pipes = << >> /\ bulks = << >> /\ NextUpload

\* The certificate codes a pipeline can have.
PipeCodes == {IdPool[i] : i \in 1..Len(IdPool)}

\* The promise the pipeline of certificate c awaits settles.
PipeStep(c) ==
    /\ c \in DOMAIN pipes
    /\ \/ InsertResolved(c) \/ InsertRejected(c)
       \/ ImageLoaded(c) \/ ImageFailed(c)
       \/ SettleDone(c)
       \/ RasterDone(c) \/ RasterFailed(c)
       \/ UploadResolved(c) \/ UploadRejected(c)
       \/ UpdateResolved(c) \/ UpdateRejected(c)

\* The request or the delay uploadCertificatePDF awaits ends.
UploadStep ==
    \/ \E status \in Statuses : UploadPostResponse(status)
    \/ UploadPostException
    \/ \E status \in Statuses : UploadPutResponse(status)
    \/ UploadPutException
    \/ UploadSleepDone

Fairness ==
    /\ \A c \in PipeCodes : WF_vars(PipeStep(c))
    /\ WF_vars(\E k \in 1..Len(bulks) : BulkContinue(k))
    /\ WF_vars(UploadStep)

SpecLive == Init /\ [][NextLive]_vars /\ Fairness

(* Issuance while the recipient and the template are deleted.             *)

NextIssueDelete ==
    \/ \E p \in RecipientPayloads : nextId = 1 /\ addRecipient(p)
    \/ \E r \in RecipientIdArgs, t \in TemplateIdArgs :
           pipes = << >> /\ certificates = << >> /\ generateCertificate(r, t)
    \/ \E rs \in {x \in BulkInputs : Len(x) > batchSize}, t \in TemplateIdArgs :
           pipes = << >> /\ certificates = << >> /\ generateBulkCertificates(rs, t)
    \/ \E id \in Ids(recipients) : pipes # << >> /\ deleteRecipient(id)
    \/ pipes # << >> /\ defaultTemplates[1].id \in Ids(templates)
           /\ deleteTemplate(defaultTemplates[1].id)
    \/ \E k \in 1..Len(bulks) : BulkContinue(k)
    \/ \E c \in DOMAIN pipes : InsertResolved(c)
    \/ \E c \in DOMAIN pipes : InsertRejected(c)
    \/ \E c \in DOMAIN pipes : ImageLoaded(c)
    \/ \E c \in DOMAIN pipes : ImageFailed(c)
    \/ \E c \in DOMAIN pipes : SettleDone(c)
    \/ \E c \in DOMAIN pipes : RasterDone(c)
    \/ \E c \in DOMAIN pipes : RasterFailed(c)
    \/ \E c \in DOMAIN pipes : UploadResolved(c)
    \/ \E c \in DOMAIN pipes : UploadRejected(c)
    \/ \E c \in DOMAIN pipes : UpdateResolved(c)
    \/ \E c \in DOMAIN pipes : UpdateRejected(c)

SpecIssueDelete == Init /\ [][NextIssueDelete]_vars

---------------------------------------------------------------------------
(* Properties of issuance, under SpecIssue.                                *)

Range(s) == {s[i] : i \in 1..Len(s)}

PipesOf(k) == {c \in DOMAIN pipes : pipes[c].bulk = k}

\* C1: after generateCertificate(recipientId, templateId) has returned, and
\* whatever the remote calls do afterwards, the certificates hold a certificate
\* with the returned (new) identifier, the given recipientId and templateId,
\* and status "published".
C1_GenerateCertificateLocal ==
    last.op = "generateCertificate" =>
        /\ last.ret \notin Ids(last.pre.certificates)
        /\ \E i \in 1..Len(certificates) :
              /\ certificates[i].id = last.ret
              /\ certificates[i].recipientId = last.args[1]
              /\ certificates[i].templateId = last.args[2]
              /\ certificates[i].status = "published"

\* generateCertificate returned, its remote insert was made and then failed.
C1_Witness ==
    /\ last.op = "generateCertificate"
    /\ last.ret \in DOMAIN pipes
    /\ pipes[last.ret].pc = "insertFailed"

\* C2: a bulk call with N recipient ids appends N certificates, in input
\* order and one per input id, while no certificate of a later batch has been
\* started; the certificate at position j (from 1) is processed in the batch
\* that starts at 3 * ((j - 1) \div 3), the batches are started in array order,
\* and when the call is done every certificate has been in exactly its batch.
C2_BulkBatches ==
    /\ last.op = "generateBulkCertificates" =>
          LET n == Len(last.args[1])
              m == Len(last.pre.certificates)
          IN  /\ Len(certificates) = m + n
              /\ Len(last.ret) = n
              /\ \A j \in 1..m : certificates[j] = last.pre.certificates[j]
              /\ \A j \in 1..n :
                    /\ certificates[m + j].id = last.ret[j]
                    /\ certificates[m + j].recipientId = last.args[1][j]
                    /\ certificates[m + j].templateId = last.args[2]
              /\ \A j1, j2 \in 1..n : last.ret[j1] = last.ret[j2] => j1 = j2
    /\ \A k \in 1..Len(bulks) :
          LET b == bulks[k]
              n == Len(b.certs)
          IN  /\ PipesOf(k) \subseteq {b.certs[j].id : j \in 1..n}
              /\ \A j \in 1..n :
                    LET c == b.certs[j].id
                    IN  /\ c \in DOMAIN pipes <=> (j <= b.i + 3)
                        /\ c \in DOMAIN pipes =>
                              /\ pipes[c].bulk = k
                              /\ pipes[c].batch = 3 * ((j - 1) \div 3)
              /\ b.pc = "done" => \A j \in 1..n : b.certs[j].id \in DOMAIN pipes

\* A bulk call with 4 recipient ids is done: batches of 3 and 1.
C2_Witness ==
    \E k \in 1..Len(bulks) :
        /\ Len(bulks[k].certs) = 4
        /\ bulks[k].pc = "done"
        /\ Cardinality({c \in PipesOf(k) : pipes[c].batch = 0}) = 3
        /\ Cardinality({c \in PipesOf(k) : pipes[c].batch = 3 /\ pipes[c].pc = "done"}) = 1

\* C3: within one bulk call at most 3 pipelines are in flight, and a pipeline
\* of a later batch exists only when every pipeline of the earlier batches has
\* ended.
C3_BatchBarrier ==
    \A k \in 1..Len(bulks) :
        /\ Cardinality({c \in PipesOf(k) : InFlight(c)}) <= 3
        /\ \A c, d \in PipesOf(k) :
              pipes[c].batch < pipes[d].batch => pipes[c].pc \in Terminal

\* Three pipelines of a call with 4 recipient ids are in flight, at different
\* stages, and the fourth certificate has not been started.
C3_Witness ==
    \E k \in 1..Len(bulks) :
        /\ Len(bulks[k].certs) = 4
        /\ Cardinality({c \in PipesOf(k) : InFlight(c)}) = 3
        /\ \E c, d \in PipesOf(k) : pipes[c].pc = "insert" /\ pipes[d].pc = "update"
        /\ bulks[k].certs[4].id \notin DOMAIN pipes

\* A step of an asynchronous pipeline: a pipeline moves on, or the loop of a
\* bulk call does.
PipelineStep ==
    \/ \E c \in DOMAIN pipes : pipes'[c] # pipes[c]
    \/ \E k \in 1..Len(bulks) : bulks'[k] # bulks[k]

\* C6: no step of an asynchronous pipeline, successful or failed, changes
\* templates, recipients, certificates, collections or currentTemplateId.
C6_PipelineFrame == [][PipelineStep => UNCHANGED storeVars]_vars

\* The insert of one certificate and the URL update of another have failed,
\* and both certificates are in local state.
C6_Witness ==
    \E c, d \in DOMAIN pipes :
        /\ pipes[c].pc = "insertFailed"
        /\ pipes[d].pc = "updateFailed"
        /\ {c, d} \subseteq Ids(certificates)

\* C7: the PDF is generated only when the insert has succeeded, the URL update
\* is called only when the upload has succeeded, with the certificate's id and
\* the URL the upload returned, and after a failed insert neither is done.
C7_RemoteOrder ==
    \A c \in DOMAIN pipes :
        LET p == pipes[c]
        IN  /\ p.pdf # "none" => p.insert = "resolved"
            /\ p.update # "none" =>
                  /\ p.pdf = "resolved"
                  /\ p.updateArgs = <<p.db.certificate_code, p.pdfUrl>>
                  /\ p.pdfUrl # Null
            /\ p.update = "none" => p.updateArgs = << >>
            /\ p.insert = "rejected" => p.pdf = "none" /\ p.update = "none"
            /\ p.pc # "skipped" => p.db.certificate_code = c

\* One certificate went through insert, PDF and URL update; the insert of
\* another failed.
C7_Witness ==
    \E c, d \in DOMAIN pipes :
        /\ pipes[c].pc = "done" /\ pipes[c].update = "resolved"
        /\ pipes[d].insert = "rejected"

---------------------------------------------------------------------------
(* Properties of uploadCertificatePDF, under SpecUpload.                   *)

NumberOf(requests, method) ==
    Cardinality({i \in 1..Len(requests) : requests[i].method = method})

\* C4: when the create request answers 409, the same attempt sends an update
\* request (PUT) to the same key `{certificateCode}.pdf`; when that answers ok
\* the call returns, in the same attempt, without a delay or a further request.
C4_ConflictThenUpdate ==
    [][ /\ (up.pc = "post" /\ up' # up /\ up'.status = 409) =>
              /\ up'.pc = "put"
              /\ up'.attempt = up.attempt
              /\ up'.slept = up.slept
              /\ up'.requests =
                    Append(up.requests,
                           [method |-> "PUT",
                            url |-> <<supabaseUrl, "/storage/v1/object/", "certificates",
                                      "/", <<up.code, ".pdf">> >>])
              /\ up.requests[Len(up.requests)] =
                    [method |-> "POST", url |-> up'.requests[Len(up'.requests)].url]
        /\ (up.pc = "put" /\ up' # up /\ ResponseOk(up'.status)) =>
              /\ up'.pc = "returned"
              /\ up'.attempt = up.attempt
              /\ up'.slept = up.slept
              /\ up'.requests = up.requests ]_vars

\* The first attempt met a 409, its update request succeeded, and the call
\* has returned without a second attempt.
C4_Witness ==
    /\ up.pc = "returned"
    /\ up.attempt = 1
    /\ Len(up.requests) = 2
    /\ up.requests[2].method = "PUT"
    /\ up.slept = << >>

\* C5: a call makes at most 3 attempts, each with one create request; every
\* failed attempt but the third is followed by a delay of 1000 ms times its
\* number and then by the next attempt; the third failure throws without a
\* further delay or request; a successful attempt returns at once.
C5_BoundedRetries ==
    /\ [](up.pc # "idle" =>
            /\ up.attempt \in 1..3
            /\ NumberOf(up.requests, "POST") = up.attempt
            /\ NumberOf(up.requests, "PUT") <= up.attempt
            /\ Len(up.slept) = (IF up.pc = "sleep" THEN up.attempt ELSE up.attempt - 1)
            /\ \A j \in 1..Len(up.slept) : up.slept[j] = 1000 * j
            /\ up.pc = "thrown" => up.attempt = 3
            /\ up.pc = "sleep" => up.attempt < 3)
    /\ [][ /\ (up.pc \in {"post", "put"} /\ up' # up /\ up'.pc \notin {"returned", "put"}) =>
                 /\ up'.requests = up.requests
                 /\ up'.attempt = up.attempt
                 /\ up'.pc = (IF up.attempt < 3 THEN "sleep" ELSE "thrown")
           /\ (up.pc = "sleep" /\ up' # up) =>
                 /\ up'.pc = "post"
                 /\ up'.attempt = up.attempt + 1
                 /\ up'.slept = up.slept
           /\ (up.pc \in {"post", "put"} /\ up' # up /\ ResponseOk(up'.status)) =>
                 up'.pc = "returned"
           /\ up.pc \in {"returned", "thrown"} => up' = up ]_vars

\* Three attempts failed (the last one on its update request): the terminal
\* error is thrown after delays of 1000 and 2000 ms.
C5_Witness ==
    /\ up.pc = "thrown"
    /\ up.slept = <<1000, 2000>>
    /\ up.requests[Len(up.requests)].method = "PUT"

---------------------------------------------------------------------------
(* Properties of the store actions, under Spec and SpecEdit.               *)

\* The positions of s whose element satisfies keep.
Kept(s, keep(_)) == {i \in 1..Len(s) : keep(s[i])}

\* t is s without the elements that do not satisfy keep: the others are all
\* there, unchanged and in their order.
IsRestOf(t, s, keep(_)) ==
    /\ Len(t) = Cardinality(Kept(s, keep))
    /\ \A i \in Kept(s, keep) :
          t[Cardinality({j \in Kept(s, keep) : j <= i})] = s[i]

\* C8: deleteRecipient(r) removes from the certificates exactly those of
\* recipient r and from the recipients exactly those with id r; every other
\* one is kept, unchanged and in its order.
C8_DeleteRecipientCascade ==
    last.op = "deleteRecipient" =>
        LET r == last.args[1]
        IN  /\ IsRestOf(certificates, last.pre.certificates, LAMBDA c : c.recipientId # r)
            /\ IsRestOf(recipients, last.pre.recipients, LAMBDA x : x.id # r)

\* deleteRecipient removed the recipient and a certificate of theirs, and kept
\* a certificate of another recipient id.
C8_Witness ==
    /\ last.op = "deleteRecipient"
    /\ Len(recipients) < Len(last.pre.recipients)
    /\ Len(certificates) < Len(last.pre.certificates)
    /\ Len(certificates) > 0

\* o is payload with the identifier id: the payload's fields, plus id, and no other.
IsPayloadWithId(o, payload, id) ==
    /\ DOMAIN o = (DOMAIN payload) \cup {"id"}
    /\ o.id = id
    /\ \A f \in (DOMAIN payload) \ {"id"} : o[f] = payload[f]

\* after is before with the entities of identifier id replaced by payload with id.
IsReplaced(after, before, id, payload) ==
    /\ Len(after) = Len(before)
    /\ \A i \in 1..Len(before) :
          IF before[i].id = id THEN IsPayloadWithId(after[i], payload, id)
                               ELSE after[i] = before[i]
    /\ id \notin Ids(before) => after = before

\* C9: updateTemplate(id, payload) and updateRecipient(id, payload) replace
\* the entity of identifier id, in place, by the payload's fields plus id, leave
\* every other entity unchanged, and change nothing when no entity has that id.
C9_UpdateReplaces ==
    /\ last.op = "updateTemplate" =>
          /\ IsReplaced(templates, last.pre.templates, last.args[1], last.args[2])
          /\ recipients = last.pre.recipients
    /\ last.op = "updateRecipient" =>
          /\ IsReplaced(recipients, last.pre.recipients, last.args[1], last.args[2])
          /\ templates = last.pre.templates

\* updateRecipient replaced the second recipient, which had an email, by a
\* payload without one.
C9_Witness ==
    /\ last.op = "updateRecipient"
    /\ Len(recipients) = 2
    /\ last.pre.recipients[2].id = last.args[1]
    /\ "email" \in DOMAIN last.pre.recipients[2]
    /\ "email" \notin DOMAIN recipients[2]
    /\ recipients[1] = last.pre.recipients[1]

\* C10 (as claimed): updateCertificate(id, updates) keeps the identifier of the
\* certificate of identifier id and every field updates does not name, and
\* gives it the value of every field updates names.
C10_UpdateCertificateKeepsId ==
    last.op = "updateCertificate" =>
        /\ Len(certificates) = Len(last.pre.certificates)
        /\ \A i \in 1..Len(certificates) :
              LET old == last.pre.certificates[i]
                  updates == last.args[2]
              IN  IF old.id = last.args[1]
                  THEN /\ certificates[i].id = old.id
                       /\ \A f \in (DOMAIN updates) \ {"id"} : certificates[i][f] = updates[f]
                       /\ \A f \in (DOMAIN old) \ (DOMAIN updates) : certificates[i][f] = old[f]
                  ELSE certificates[i] = old

---------------------------------------------------------------------------
(* Properties of the collection actions, under SpecCollections.            *)

\* The identifiers of the members of a collection, in order.
MemberIds(collection) ==
    [j \in 1..Len(collection.certificates) |-> collection.certificates[j].id]

\* C11: after addCertificatesToCollection(collectionId, certificateIds), the
\* same call made again leaves every collection with the same members, in the
\* same order: the second call changes nothing.
C11_AddIdempotent ==
    last.op = "addCertificatesToCollection" =>
        LET twice == addCertificatesToCollectionSet(collections, certificates,
                                                    last.args[1], last.args[2])
        IN  /\ Len(twice) = Len(collections)
            /\ \A i \in 1..Len(collections) :
                  /\ MemberIds(twice[i]) = MemberIds(collections[i])
                  /\ twice[i] = collections[i]

\* A call with two certificate ids added one certificate to a collection that
\* already held the other.
C11_Witness ==
    /\ last.op = "addCertificatesToCollection"
    /\ Len(last.args[2]) = 2
    /\ \E i \in 1..Len(collections) :
          /\ collections[i].id = last.args[1]
          /\ Len(last.pre.collections[i].certificates) = 1
          /\ Len(collections[i].certificates) = 2
          /\ \A j \in 1..2 : \E m \in 1..2 : collections[i].certificates[m].id = last.args[2][j]

\* C20: removeCertificatesFromCollection(collectionId, certificateIds) leaves
\* in the collection of that id exactly the members whose id is not listed, in
\* their order and unchanged, changes nothing else of that collection, and
\* leaves every other collection and the certificates as they were.
C20_RemoveIsDifference ==
    last.op = "removeCertificatesFromCollection" =>
        LET ids == last.args[2]
            listed(id) == \E j \in 1..Len(ids) : ids[j] = id
        IN  /\ certificates = last.pre.certificates
            /\ Len(collections) = Len(last.pre.collections)
            /\ \A i \in 1..Len(collections) :
                  LET old == last.pre.collections[i]
                  IN  IF old.id = last.args[1]
                      THEN /\ IsRestOf(collections[i].certificates, old.certificates,
                                       LAMBDA c : ~listed(c.id))
                           /\ DOMAIN collections[i] = DOMAIN old
                           /\ \A f \in (DOMAIN old) \ {"certificates"} :
                                 collections[i][f] = old[f]
                      ELSE collections[i] = old

\* A call that lists a member and an identifier that is no member removed the
\* first of two members and kept the second.
C20_Witness ==
    /\ last.op = "removeCertificatesFromCollection"
    /\ Len(last.args[2]) = 2
    /\ \E i \in 1..Len(collections) :
          /\ collections[i].id = last.args[1]
          /\ Len(last.pre.collections[i].certificates) = 2
          /\ Len(collections[i].certificates) = 1
          /\ collections[i].certificates[1] = last.pre.collections[i].certificates[2]
          /\ last.args[2][2] \notin Ids(last.pre.collections[i].certificates)

---------------------------------------------------------------------------
(* Properties of exportData and importData, under SpecData.                *)

\* The store importData gives, on an empty store, for the text exportData
\* returns in the current state.
RoundTrip == importDataSet(ClearedStore, exportDataText(Snapshot))

\* The id of the first entity of a container, null when it has none.
FirstIdOrNull(s) == IF Len(s) > 0 THEN s[1].id ELSE Null

EqualButUndefined(after, before) ==
    /\ Len(after) = Len(before)
    /\ \A i \in 1..Len(before) :
          /\ DOMAIN after[i] \subseteq DOMAIN before[i]
          /\ \A f \in DOMAIN before[i] :
                IF f = "description" /\ before[i][f] = "undefined"
                THEN f \notin DOMAIN after[i]
                ELSE f \in DOMAIN after[i] /\ after[i][f] = before[i][f]

C16_MalformedImportNoOp ==
    (last.op = "importData" /\ last.args[1].json \in {"invalid", "null"}) =>
        /\ last.ret = Null
        /\ templates = last.pre.templates
        /\ recipients = last.pre.recipients
        /\ certificates = last.pre.certificates
        /\ collections = last.pre.collections
        /\ currentTemplateId = last.pre.currentTemplateId

\* importData was given the text null in a store that holds a certificate
\* and a collection.
C16_Witness ==
    /\ last.op = "importData"
    /\ last.args[1].json = "null"
    /\ Len(certificates) > 0
    /\ Len(collections) > 0
    /\ currentTemplateId # Null

\* The payload has a value for the key.
HasKey(data, key) == data.json = "object" /\ key \in DOMAIN data.members

\* The container is the payload's value for the key, or empty when the
\* payload has no such key.
IsValueOrEmpty(container, data, key) ==
    IF HasKey(data, key)
    THEN StringifyContainer(container) = data.members[key]
    ELSE container = << >>

Falsy(v) ==
    \/ v.json \in {"null", "false"}
    \/ v.json = "number" /\ v.number = 0
    \/ v.json = "string" /\ v.string = ""

\* The container is the payload's value for the key, or empty when the
\* payload has no such key or a falsy value for it.
IsTruthyValueOrEmpty(container, data, key) ==
    IF HasKey(data, key) /\ ~Falsy(data.members[key])
    THEN StringifyContainer(container) = data.members[key]
    ELSE container = << >>

---------------------------------------------------------------------------
(* Properties of the issued certificates and of the alerts, under          *)
(* SpecIssue.                                                              *)

\* C13: every certificate issued has the verification URL of its own id,
\* {origin}/verify/{id}, and the same URL as qrCodeUrl; the certificates have
\* pairwise different ids, those of one bulk call included.
C13_VerificationUrl ==
    /\ \A i \in 1..Len(certificates) :
          /\ certificates[i].verificationUrl = <<"https://x.test", "/verify/", certificates[i].id>>
          /\ certificates[i].qrCodeUrl = certificates[i].verificationUrl
    /\ \A i, j \in 1..Len(certificates) :
          certificates[i].id = certificates[j].id => i = j
    /\ last.op = "generateBulkCertificates" =>
          \A j \in 1..Len(last.ret) :
              \E i \in 1..Len(certificates) :
                  /\ certificates[i].id = last.ret[j]
                  /\ certificates[i].verificationUrl = <<"https://x.test", "/verify/", last.ret[j]>>

\* A bulk call has issued four certificates for the same recipient.
C13_Witness ==
    /\ last.op = "generateBulkCertificates"
    /\ Len(last.ret) = 4
    /\ Len(certificates) = 4
    /\ \A j \in 1..4 : certificates[j].recipientId = certificates[1].recipientId
    /\ certificates[1].recipientId # MissingId

\* The pipelines that ended on a failed remote call.
FailedPipes ==
    {c \in DOMAIN pipes : pipes[c].pc \in {"insertFailed", "pdfFailed", "updateFailed"}}

AlertsOf(kind) == {a \in 1..Len(alerts) : alerts[a].kind = kind}

\* C14 (as claimed): every failed remote call of a single issuance has raised
\* an alert, and so has every bulk call that is done and had a failed remote
\* call.
C14_EveryFailureAlerted ==
    /\ \A c \in FailedPipes : pipes[c].bulk = 0 => AlertsOf("single") # {}
    /\ \A k \in 1..Len(bulks) :
          (bulks[k].pc = "done" /\ PipesOf(k) \cap FailedPipes # {}) =>
              AlertsOf("bulk") # {}

\* C14 (amended): a failed remote call ends its pipeline and leaves the result
\* of the store action as it was; the alerts raised are one for every failed
\* insert of a single issuance and one for every bulk call that is done and
\* had a failed insert: a failed PDF generation, upload or URL update raises
\* none.
C14_InsertFailureAlerted ==
    /\ [](/\ Cardinality(AlertsOf("single")) =
                Cardinality({c \in DOMAIN pipes :
                                pipes[c].bulk = 0 /\ pipes[c].insert = "rejected"})
          /\ Cardinality(AlertsOf("bulk")) =
                Cardinality({k \in 1..Len(bulks) :
                                /\ bulks[k].pc = "done"
                                /\ \E c \in PipesOf(k) : pipes[c].insert = "rejected"})
          /\ Len(alerts) = Cardinality(AlertsOf("single")) + Cardinality(AlertsOf("bulk"))
          /\ \A c \in DOMAIN pipes :
                (pipes[c].insert = "rejected" \/ pipes[c].pdf = "rejected"
                     \/ pipes[c].update = "rejected") => pipes[c].pc \in Terminal)
    /\ [][PipelineStep => last' = last]_vars

\* Of two single issuances one failed on its insert and the other on its PDF
\* or its URL update: one alert has been raised.
C14_Witness ==
    /\ \E c, d \in DOMAIN pipes :
          /\ pipes[c].bulk = 0 /\ pipes[c].pc = "insertFailed"
          /\ pipes[d].bulk = 0 /\ pipes[d].pc \in {"pdfFailed", "updateFailed"}
    /\ Len(alerts) = 1

\* C15 (as claimed): a bulk call that is done, and had inserts to count, has
\* raised exactly one alert, and one that is not done has raised none.
C15_OneSummaryAlert ==
    Cardinality(AlertsOf("bulk")) =
        Cardinality({k \in 1..Len(bulks) :
                        /\ bulks[k].pc = "done"
                        /\ \E c \in PipesOf(k) : pipes[c].insert # "none"})

\* C15 (amended): a bulk call raises no alert before its last batch has
\* completed and none per certificate or per batch; when it is done it has
\* raised one summary alert if at least one insert failed and none otherwise;
\* the summary shows the final counts of succeeded and failed inserts.
C15_SummaryAlertOnFailure ==
    /\ Cardinality(AlertsOf("bulk")) =
          Cardinality({k \in 1..Len(bulks) :
                          /\ bulks[k].pc = "done"
                          /\ \E c \in PipesOf(k) : pipes[c].insert = "rejected"})
    /\ (\A c \in DOMAIN pipes : pipes[c].bulk # 0) => AlertsOf("single") = {}
    /\ \A a \in AlertsOf("bulk") :
          \E k \in 1..Len(bulks) :
              /\ bulks[k].pc = "done"
              /\ \A j \in 1..Len(bulks[k].certs) :
                    /\ bulks[k].certs[j].id \in DOMAIN pipes
                    /\ pipes[bulks[k].certs[j].id].pc \in Terminal
              /\ alerts[a].saved =
                    Cardinality({c \in PipesOf(k) : pipes[c].insert = "resolved"})
              /\ alerts[a].failed =
                    Cardinality({c \in PipesOf(k) : pipes[c].insert = "rejected"})
              /\ alerts[a].failed > 0

\* A bulk call of four certificates is done: two inserts succeeded, one of
\* them followed by a failed PDF, two inserts failed, and the one alert shows
\* 2 and 2.
C15_Witness ==
    \E k \in 1..Len(bulks) :
        /\ Len(bulks[k].certs) = 4
        /\ bulks[k].pc = "done"
        /\ \E c \in PipesOf(k) : pipes[c].pc = "pdfFailed"
        /\ alerts = <<[kind |-> "bulk", saved |-> 2, failed |-> 2]>>

\* C19: every row given to insertCertificate, and every row of the remote
\* table, has as certificate_code the id of a certificate the store action
\* that started it appended, and as qr_code_data that certificate's
\* verificationUrl; insertCertificate is called once for a certificate: a
\* settled insert is never pending again, and the row given does not change.
C19_RowsOfCertificates ==
    /\ [](/\ \A c \in DOMAIN pipes :
                pipes[c].pc # "skipped" =>
                    /\ pipes[c].db.certificate_code = c
                    /\ \E i \in 1..Len(certificates) :
                          /\ certificates[i].id = c
                          /\ pipes[c].db.qr_code_data = certificates[i].verificationUrl
                    /\ pipes[c].bulk # 0 =>
                          c \in {bulks[pipes[c].bulk].certs[j].id :
                                    j \in 1..Len(bulks[pipes[c].bulk].certs)}
          /\ \A code \in DOMAIN dbRows :
                /\ code \in DOMAIN pipes
                /\ pipes[code].insert = "resolved"
                /\ dbRows[code].certificate_code = code
                /\ dbRows[code].qr_code_data = pipes[code].db.qr_code_data)
    /\ [][ /\ \A c \in DOMAIN pipes :
                 /\ c \in DOMAIN pipes'
                 /\ pipes'[c].db = pipes[c].db
                 /\ pipes[c].insert # "pending" => pipes'[c].insert = pipes[c].insert
           /\ \A c \in (DOMAIN pipes') \ (DOMAIN pipes) :
                 pipes'[c].bulk = 0 =>
                     /\ last'.op = "generateCertificate"
                     /\ last'.ret = c
                     /\ c \notin Ids(certificates)
                     /\ c \in Ids(certificates') ]_vars

\* The rows of two certificates of a bulk call are in the remote table, one
\* of them with its PDF URL, and the insert of a third certificate has failed.
C19_Witness ==
    /\ \E c, d \in DOMAIN dbRows :
          /\ c # d
          /\ pipes[c].bulk # 0 /\ pipes[d].bulk # 0
          /\ dbRows[c].certificate_pdf_url # Null
    /\ \E c \in DOMAIN pipes : pipes[c].insert = "rejected"

---------------------------------------------------------------------------
(* The key and the URL of an uploaded PDF, under SpecUpload.               *)

\* C18: every request of a call uploadCertificatePDF(code, ...) goes to the
\* key {code}.pdf of the bucket certificates, and a call that has returned, by
\* create or by update and on whichever attempt, has returned
\* getCertificatePDFUrl(code).
C18_UrlOfCode ==
    up.pc # "idle" =>
        /\ \A j \in 1..Len(up.requests) :
              up.requests[j].url =
                  <<supabaseUrl, "/storage/v1/object/", "certificates", "/", <<up.code, ".pdf">> >>
        /\ up.pc = "returned" =>
              /\ up.result = getCertificatePDFUrl(up.code)
              /\ up.result =
                    <<supabaseUrl, "/storage/v1/object/public/", "certificates", "/",
                      <<up.code, ".pdf">> >>

\* The call returned on its second attempt, by an update.
C18_Witness ==
    /\ up.pc = "returned"
    /\ up.attempt = 2
    /\ up.requests[Len(up.requests)].method = "PUT"
    /\ up.result = getCertificatePDFUrl(up.code)

---------------------------------------------------------------------------
(* Properties of the delete actions, under SpecDelete.                     *)

\* C21: deleteTemplate leaves recipients, certificates and collections as
\* they were, the certificates of the deleted template included;
\* deleteCertificate and deleteRecipient leave the collections, and so their
\* members, as they were; deleteCollection leaves templates, recipients and
\* certificates as they were.
C21_OnlyRecipientCascades ==
    /\ last.op = "deleteTemplate" =>
          /\ recipients = last.pre.recipients
          /\ certificates = last.pre.certificates
          /\ collections = last.pre.collections
    /\ last.op \in {"deleteCertificate", "deleteRecipient"} =>
          collections = last.pre.collections
    /\ last.op = "deleteCertificate" =>
          /\ recipients = last.pre.recipients
          /\ templates = last.pre.templates
    /\ last.op = "deleteCollection" =>
          /\ templates = last.pre.templates
          /\ recipients = last.pre.recipients
          /\ certificates = last.pre.certificates

\* deleteCertificate removed a certificate that is a member of a collection,
\* and the collection still holds its copy.
C21_Witness ==
    /\ last.op = "deleteCertificate"
    /\ Len(certificates) < Len(last.pre.certificates)
    /\ \E i \in 1..Len(collections) :
          \E j \in 1..Len(collections[i].certificates) :
              collections[i].certificates[j].id = last.args[1]

---------------------------------------------------------------------------
(* Termination, under SpecLive.                                            *)

\* C22: when every remote call is answered, every pipeline that has been
\* started ends, a bulk call ends with every one of its certificates
\* processed, whatever failed on the way, and a call of uploadCertificatePDF
\* returns or throws.
C22_IssuanceTerminates ==
    /\ \A c \in PipeCodes :
          (c \in DOMAIN pipes) ~> (c \in DOMAIN pipes /\ pipes[c].pc \in Terminal)
    /\ (Len(bulks) > 0) ~>
          /\ Len(bulks) > 0
          /\ bulks[1].pc = "done"
          /\ \A j \in 1..Len(bulks[1].certs) :
                /\ bulks[1].certs[j].id \in DOMAIN pipes
                /\ pipes[bulks[1].certs[j].id].pc \in Terminal
    /\ (up.pc # "idle") ~> (up.pc \in {"returned", "thrown"})

\* A bulk call of four certificates is done: an insert and a PDF of the first
\* batch failed, and the certificate of the second batch went through.
C22_Witness ==
    /\ Len(bulks) > 0
    /\ Len(bulks[1].certs) = 4
    /\ bulks[1].pc = "done"
    /\ \E c, d \in PipesOf(1) :
          /\ pipes[c].batch = 0 /\ pipes[c].pc = "insertFailed"
          /\ pipes[d].batch = 0 /\ pipes[d].pc = "pdfFailed"
    /\ pipes[bulks[1].certs[4].id].pc = "done"

---------------------------------------------------------------------------
(* Properties of the PDF generation, under SpecIssue.                      *)

\* C23: when the template image fails to load, generateAndUploadCertificatePDF
\* rejects without a call of uploadCertificatePDF, the pipeline ends without a
\* PDF-URL update, and the row inserted for the certificate stays as it was,
\* then and ever after.
C23_ImageFailureAborts ==
    /\ [](\A c \in DOMAIN pipes :
             pipes[c].pc = "img" =>
                 /\ c \in DOMAIN dbRows
                 /\ pipes[c].uploads = 0
                 /\ pipes[c].update = "none")
    /\ [][\A c \in DOMAIN pipes :
             /\ (pipes[c].pc = "img" /\ pipes'[c].pc \notin {"img", "settle"}) =>
                   /\ pipes'[c].pc = "pdfFailed"
                   /\ pipes'[c].pdf = "rejected"
                   /\ pipes'[c].uploads = 0
                   /\ pipes'[c].update = "none"
                   /\ pipes'[c].updateArgs = << >>
                   /\ dbRows' = dbRows
             /\ pipes[c].pc = "pdfFailed" =>
                   /\ pipes'[c] = pipes[c]
                   /\ c \in DOMAIN dbRows'
                   /\ dbRows'[c] = dbRows[c]]_vars

\* The image of a certificate failed to load after its row was inserted: no
\* upload was called, no container was attached, and the row has no PDF URL;
\* the pipeline of another certificate has gone on since.
C23_Witness ==
    \E c, d \in DOMAIN pipes :
        /\ pipes[c].pc = "pdfFailed"
        /\ pipes[c].uploads = 0
        /\ ~pipes[c].container
        /\ c \in DOMAIN dbRows
        /\ dbRows[c].certificate_pdf_url = Null
        /\ pipes[d].pc = "done"

---------------------------------------------------------------------------
(* Properties of issuance for entities that are missing or deleted, under  *)
(* SpecIssueDelete.                                                        *)

\* C24: a certificate issued for a recipient id or a template id that matches
\* nothing when the action is called is appended and its id returned, but it
\* has no remote call (no insert, no PDF, no URL update, no row) and no alert;
\* whether a certificate has remote calls is decided by the recipients and
\* templates of the time of the call, and a later deleteRecipient or
\* deleteTemplate changes no pipeline.
C24_MissingEntitySkips ==
    /\ [](/\ last.op = "generateCertificate" =>
                /\ last.ret \in Ids(certificates)
                /\ last.ret \in DOMAIN pipes <=>
                      /\ last.args[1] \in Ids(last.pre.recipients)
                      /\ last.args[2] \in Ids(last.pre.templates)
          /\ last.op = "generateBulkCertificates" =>
                \A j \in 1..Len(last.ret) :
                    /\ last.ret[j] \in Ids(certificates)
                    /\ (last.ret[j] \in DOMAIN pipes /\ pipes[last.ret[j]].pc # "skipped") =>
                          /\ last.args[1][j] \in Ids(last.pre.recipients)
                          /\ last.args[2] \in Ids(last.pre.templates)
                    /\ bulks[Len(bulks)].found[j] # Undefined <=>
                          last.args[1][j] \in Ids(last.pre.recipients)
                    /\ bulks[Len(bulks)].template # Undefined <=>
                          last.args[2] \in Ids(last.pre.templates)
          /\ \A k \in 1..Len(bulks) :
                \A j \in 1..Len(bulks[k].certs) :
                    bulks[k].certs[j].id \in DOMAIN pipes =>
                        (pipes[bulks[k].certs[j].id].pc = "skipped" <=>
                            (bulks[k].found[j] = Undefined \/ bulks[k].template = Undefined))
          /\ \A c \in DOMAIN pipes :
                pipes[c].pc = "skipped" =>
                    /\ pipes[c].insert = "none"
                    /\ pipes[c].pdf = "none"
                    /\ pipes[c].update = "none"
                    /\ c \notin DOMAIN dbRows
          /\ (\A c \in DOMAIN pipes : pipes[c].insert # "rejected") => alerts = << >>)
    /\ [][(last'.op \in {"deleteRecipient", "deleteTemplate"} /\ last' # last) =>
              (pipes' = pipes /\ bulks' = bulks /\ dbRows' = dbRows /\ alerts' = alerts)]_vars

\* The recipient of a bulk call of four certificates, one of them for an
\* unknown recipient id, was deleted while the first batch is in flight: the
\* certificates are gone from the store and the pipelines are still there.
C24_Witness ==
    /\ last.op = "deleteRecipient"
    /\ Len(last.pre.recipients) = 1
    /\ recipients = << >>
    /\ Len(certificates) < Len(last.pre.certificates)
    /\ Len(bulks) = 1
    /\ Len(bulks[1].certs) = 4
    /\ bulks[1].i = 0
    /\ \E c, d \in PipesOf(1) : pipes[c].pc = "skipped" /\ pipes[d].pc = "insert"

---------------------------------------------------------------------------
(* Properties of the counters of a bulk call, under SpecIssue.             *)

InsertsOf(k, outcome) ==
    Cardinality({c \in PipesOf(k) : pipes[c].insert = outcome})

\* C25: at every moment of a generateBulkCertificates call savedCount +
\* errorCount is at most the number of certificates and is the number of
\* completed inserts; savedCount is the number of successful inserts and
\* errorCount the number of failed ones, also when all batches are done; a
\* certificate whose insert succeeded and whose PDF or URL update failed is
\* counted as saved; no certificate is counted twice.
C25_BulkCounters ==
    \A k \in 1..Len(bulks) :
        /\ bulks[k].savedCount + bulks[k].errorCount <= Len(bulks[k].certs)
        /\ bulks[k].savedCount = InsertsOf(k, "resolved")
        /\ bulks[k].errorCount = InsertsOf(k, "rejected")
        /\ bulks[k].savedCount + bulks[k].errorCount =
               Cardinality({c \in PipesOf(k) : pipes[c].insert \in {"resolved", "rejected"}})
        /\ bulks[k].savedCount >=
               Cardinality({c \in PipesOf(k) : pipes[c].pc \in {"pdfFailed", "updateFailed"}})
        /\ bulks[k].pc = "done" =>
               bulks[k].savedCount + bulks[k].errorCount =
                   Cardinality({j \in 1..Len(bulks[k].certs) :
                                   pipes[bulks[k].certs[j].id].pc # "skipped"})

\* A bulk call of four certificates is done: inserts succeeded and failed, a
\* PDF failed and a URL update failed after their inserts.
C25_Witness ==
    \E k \in 1..Len(bulks) :
        /\ bulks[k].pc = "done"
        /\ Len(bulks[k].certs) = 4
        /\ bulks[k].errorCount = 1
        /\ bulks[k].savedCount = 3
        /\ \E c, d \in PipesOf(k) : pipes[c].pc = "pdfFailed" /\ pipes[d].pc = "updateFailed"

---------------------------------------------------------------------------
(* Properties of the members of a collection, under SpecMembers.           *)

\* C26: after any sequence of store actions (importData and updateCollection
\* apart), no collection has two members with the same certificate
\* identifier.
C26_UniqueMembers ==
    \A k \in 1..Len(collections) :
        \A i, j \in 1..Len(collections[k].certificates) :
            collections[k].certificates[i].id = collections[k].certificates[j].id => i = j

---------------------------------------------------------------------------
(* Properties of the current template, under SpecTemplates.                *)

\* currentTemplateId is null or the id of a template of the store.
CurrentTemplateExists ==
    currentTemplateId = Null \/ currentTemplateId \in Ids(templates)

\* C27: setCurrentTemplate being called with ids of existing templates only,
\* currentTemplateId is null or the id of a template of the store;
\* deleteTemplate(id) of the current template moves it to the first remaining
\* template, or to null when none remains, and deleteTemplate of another
\* template leaves it unchanged.
C27_CurrentTemplateFollows ==
    /\ CurrentTemplateExists
    /\ last.op = "deleteTemplate" =>
           IF last.pre.currentTemplateId = last.args[1]
           THEN currentTemplateId = (IF templates = << >> THEN Null ELSE templates[1].id)
           ELSE currentTemplateId = last.pre.currentTemplateId

\* C27 (amended): as claimed, but deleteTemplate(id) of the current template
\* also moves it to null when the first remaining template's id is the empty
\* string (a falsy id, which only an imported template has).
C27_CurrentTemplateFollowsTruthy ==
    /\ CurrentTemplateExists
    /\ last.op = "deleteTemplate" =>
           IF last.pre.currentTemplateId = last.args[1]
           THEN currentTemplateId =
                    (IF templates = << >> \/ templates[1].id = "" THEN Null
                                                                   ELSE templates[1].id)
           ELSE currentTemplateId = last.pre.currentTemplateId

\* The current template, which was the first of several, was deleted: the
\* next one is current.
C27_Witness ==
    /\ last.op = "deleteTemplate"
    /\ last.pre.currentTemplateId = last.args[1]
    /\ last.pre.templates[1].id = last.args[1]
    /\ Len(templates) > 1
    /\ Len(templates) < Len(last.pre.templates)
    /\ currentTemplateId = templates[1].id
    /\ currentTemplateId # Null

---------------------------------------------------------------------------
(* Properties of the off-screen container, under SpecIssue.                *)

\* C28: whenever generateAndUploadCertificatePDF has terminated, by returning
\* a URL or by throwing at any stage, the off-screen container it attached to
\* the document has been removed; and once the upload has been called the
\* container has been removed.
C28_ContainerRemoved ==
    \A c \in DOMAIN pipes :
        /\ pipes[c].pdf \in {"resolved", "rejected"} => ~pipes[c].container
        /\ pipes[c].uploads > 0 => ~pipes[c].container

=============================================================================
